---- MODULE Spec2Model ----
(***************************************************************************)
(* Model of gcnfuse-rs: the FUSE adapter that serves a GameCube File       *)
(* System Table (a flat, pre-order encoded directory tree) as an inode     *)
(* addressed read-only filesystem.                                         *)
(*                                                                         *)
(* The repository holds two implementations of the four handlers           *)
(* (lookup, getattr, readdir, read): src/src/fuse.rs and src/src/main.rs.  *)
(* Both are modelled; the names of the main.rs definitions carry the       *)
(* prefix Main_.                                                           *)
(*                                                                         *)
(* Rust's u32 / u64 are modelled as words of WordBits / 2*WordBits bits,   *)
(* since TLC's integers are 32-bit; every wrapping cast and every          *)
(* overflow check is kept, relative to that width.                         *)
(***************************************************************************)
EXTENDS Integers, Sequences, FiniteSets, TLC

(* ------------------------------ bounds -------------------------------- *)
\* Largest number of entries of a table (the root included).
MaxEntries == 4
\* Largest size of a file, in bytes.
MaxSize == 2
\* Bits of the scaled u32 (u64 has twice as many).
WordBits == 4
\* Largest capacity, in entries, of the transport's readdir reply buffer.
MaxCap == 2

\* blksize / the divisor of the block count.
BlkSize == 512

U32 == 2 ^ WordBits
U64 == 2 ^ (2 * WordBits)

Names == {"a", "b"}
\* A name no entry bears.
Missing == "missing"
QueryNames == Names \cup {Missing}

(* --------------------------- the table (Fst) --------------------------- *)
\* gcn_disk::Entry: File(size, offset) or Directory(index, end_index,
\* parent_index); one record shape for both, unused fields 0.
File(size, offset) ==
    [kind |-> "File", size |-> size, offset |-> offset,
     index |-> 0, end_index |-> 0, parent_index |-> 0]

Directory(index, end_index, parent_index) ==
    [kind |-> "Directory", size |-> 0, offset |-> 0,
     index |-> index, end_index |-> end_index, parent_index |-> parent_index]

\* The byte source (io) as the table source lays it out: one unused byte,
\* then the files' data regions, MaxSize apart, then the string table, one
\* position for each entry's name.
FileOffset(i) == 1 + (i - 1) * MaxSize
StrTab(n) == 1 + n * MaxSize
SrcLen(n) == StrTab(n) + n

\* The byte at position p of the byte source.
ByteAt(p) == p

\* Pre-order containment (the invariant the adapter assumes): entry 0 is the
\* root, a directory's range lies in its parent's range, and parent_index
\* names the innermost enclosing directory (the root is its own parent).
Encloses(kd, en, j, i) == kd[j] = "Directory" /\ j < i /\ i < en[j]

ShapeOk(n, kd, en) ==
    /\ kd[0] = "Directory" /\ en[0] = n
    /\ \A i \in 0..(n - 1) :
          IF kd[i] = "File" THEN en[i] = 0
          ELSE /\ i < en[i] /\ en[i] <= n
               /\ \A j \in 0..(n - 1) : Encloses(kd, en, j, i) => en[i] <= en[j]

ParentOf(n, kd, en, i) ==
    IF i = 0 THEN 0
    ELSE CHOOSE j \in 0..(n - 1) :
            /\ Encloses(kd, en, j, i)
            /\ \A k \in 0..(n - 1) : Encloses(kd, en, k, i) => k <= j

\* The size of the file at index i: every size up to MaxSize occurs.
FileSize(i) == i % (MaxSize + 1)

MkTable(n, kd, en) ==
    [i \in 0..(n - 1) |->
        IF kd[i] = "File" THEN File(FileSize(i), FileOffset(i))
        ELSE Directory(i, en[i], ParentOf(n, kd, en, i))]

Shapes(n) ==
    {s \in [0..(n - 1) -> {"File", "Directory"}] \X [0..(n - 1) -> 0..n] :
        ShapeOk(n, s[1], s[2])}

TablesOfLen(n) ==
    {MkTable(n, s[1], s[2]) : s \in Shapes(n)}

Tables == UNION {TablesOfLen(n) : n \in 2..MaxEntries}

VARIABLES
    entries,   \* disc.filesystem.entries: the table, index -> Entry
    names,     \* the name the table source resolves for each index
    fault,     \* the failure, if any, of the table source's name resolution
    cursor,    \* the position of the byte source io
    last,      \* the request in flight and what its handler did
    pg         \* the paginated listing a client has under way

vars == <<entries, names, fault, cursor, last, pg>>

Count == Cardinality(DOMAIN entries)
Inodes == 1..Count
IsDir(i) == entries[i].kind = "Directory"
IsFile(i) == entries[i].kind = "File"

(* ------------------ the tree the table encodes (section 3) -------------- *)
\* i lies in the range (self_index, end_index) of the directory d.
Under(d, i) == IsDir(d) /\ entries[d].index < i /\ i < entries[d].end_index

\* i is a direct child of d: under d, and under no directory under d.
DirectChild(d, i) ==
    Under(d, i) /\ ~ \E j \in DOMAIN entries : Under(d, j) /\ Under(j, i)

ChildrenOf(d) == {i \in DOMAIN entries : DirectChild(d, i)}

\* The directory that holds d; the root holds itself.
ParentDir(d) ==
    IF d = 0 THEN 0 ELSE CHOOSE j \in DOMAIN entries : DirectChild(j, d)

Least(S) == CHOOSE m \in S : \A x \in S : m <= x

\* The members of a set of indices, in increasing order.
RECURSIVE Ascending(_)
Ascending(S) == IF S = {} THEN <<>> ELSE <<Least(S)>> \o Ascending(S \ {Least(S)})

(* ----------------------- Index / Inode conversion ---------------------- *)
\* A conversion that hands out the index itself.
Mut_to_inode(index) == index % U64

\* impl From<Index> for Inode: u64::from(val.0) + 1.
to_inode(index) == (index + 1) % U64

\* impl From<Inode> for Index: (val.0 - 1) as u32.
to_index(inode) == ((inode - 1) % U64) % U32

\* get_entry: the entry an inode denotes.
get_entry(inode) == entries[to_index(inode)]

(* ------------------------------ replies -------------------------------- *)
NoAttr ==
    [ino |-> 0, size |-> 0, blocks |-> 0, kind |-> "none", perm |-> 0,
     nlink |-> 0, uid |-> 0, gid |-> 0]

ReplyError(code) == [t |-> "error", code |-> code, attr |-> NoAttr, data |-> <<>>]
ReplyEntry(attr) == [t |-> "entry", code |-> "", attr |-> attr, data |-> <<>>]
ReplyAttr(attr) == [t |-> "attr", code |-> "", attr |-> attr, data |-> <<>>]
ReplyData(data) == [t |-> "data", code |-> "", attr |-> NoAttr, data |-> data]
ReplyOk == [t |-> "ok", code |-> "", attr |-> NoAttr, data |-> <<>>]

\* What one run of a handler did: the replies it sent, in order; the uses it
\* made of the byte source, in order; the position it left the byte source
\* at; the entries it handed to the readdir reply buffer; whether it
\* panicked.
Outcome(replies, io, cur, emitted, panicked) ==
    [replies |-> replies, io |-> io, cursor |-> cur, emitted |-> emitted,
     panicked |-> panicked]

(* ------------------------ the table source's names --------------------- *)
\* Fst::get_filename(&mut io, index): seeks io to the name of the entry in
\* the string table and reads it; fails as `fault` says.
NoFault == [k |-> "none", index |-> 0]

get_filename(index) ==
    IF fault.k # "none" /\ fault.index = index
    THEN [err |-> fault.k, name |-> "", cursor |-> StrTab(Count) + index]
    ELSE [err |-> "none", name |-> names[index], cursor |-> StrTab(Count) + index + 1]

\* The raw OS error code an Io error of kind io_os carries.
RawOsError == "EACCES"

(* ----------------------------- get_attr -------------------------------- *)
\* A get_attr that counts the directories among the direct children only.
Mut_subdirs(directory) ==
    Cardinality({j \in ChildrenOf(directory.index) : entries[j].kind = "Directory"})

\* fuse.rs get_attr: the number of Directory entries in
\* entries[directory.index + 1 .. directory.end_index].
subdirs(directory) ==
    Cardinality({j \in DOMAIN entries :
        /\ directory.index + 1 <= j /\ j < directory.end_index
        /\ entries[j].kind = "Directory"})

get_attr(index) ==
    LET entry == entries[index] IN
    IF entry.kind = "File"
    THEN [ino |-> to_inode(index), size |-> entry.size,
          blocks |-> (entry.size \div BlkSize) + 1, kind |-> "RegularFile",
          perm |-> 292, nlink |-> 1, uid |-> 0, gid |-> 0]
    ELSE [ino |-> to_inode(index), size |-> 0, blocks |-> 0, kind |-> "Directory",
          perm |-> 365, nlink |-> (2 + subdirs(entry)) % U32, uid |-> 0, gid |-> 0]

(* ------------------------- fuse.rs: lookup ------------------------------ *)
\* The reply to a failed name resolution (fuse.rs 146-157, 224-234): an Io
\* error replies its raw OS code when it has one, and nothing otherwise; any
\* other error replies EIO.
name_error_replies(err) ==
    CASE err = "io_os" -> <<ReplyError(RawOsError)>>
      [] err = "io_nocode" -> <<>>
      [] OTHER -> <<ReplyError("EIO")>>

\* The step past an entry: one for a file, to end_index for a directory.
advance(index) ==
    IF entries[index].kind = "File" THEN (index + 1) % U32
    ELSE entries[index].end_index

\* The while loop of lookup, from index, with the byte source at cur and io
\* the uses made of it so far.
RECURSIVE lookup_walk(_, _, _, _, _)
lookup_walk(index, end_index, name, cur, io) ==
    IF ~(index < end_index)
    THEN Outcome(<<ReplyError("ENOENT")>>, io, cur, <<>>, FALSE)
    ELSE LET entry_name == get_filename(index)
             io2 == Append(io, [op |-> "get_filename", arg |-> index])
         IN  IF entry_name.err # "none"
             THEN Outcome(name_error_replies(entry_name.err), io2,
                          entry_name.cursor, <<>>, FALSE)
             ELSE IF entry_name.name = name
             THEN Outcome(<<ReplyEntry(get_attr(index))>>, io2,
                          entry_name.cursor, <<>>, FALSE)
             ELSE lookup_walk(advance(to_index(to_inode(index))), end_index, name,
                              entry_name.cursor, io2)

lookup(parent, name, cur) ==
    LET parent_entry == get_entry(parent) IN
    IF parent_entry.kind # "Directory"
    THEN Outcome(<<ReplyError("EIO")>>, <<>>, cur, <<>>, FALSE)
    ELSE lookup_walk((parent_entry.index + 1) % U32, parent_entry.end_index,
                     name, cur, <<>>)

(* ------------------------- fuse.rs: getattr ----------------------------- *)
getattr(ino, cur) ==
    Outcome(<<ReplyAttr(get_attr(to_index(ino)))>>, <<>>, cur, <<>>, FALSE)

(* ------------------------- fuse.rs: readdir ----------------------------- *)
DirEnt(ino, kind, name) == [ino |-> ino, kind |-> kind, name |-> name]

FileType(entry) == IF entry.kind = "File" THEN "RegularFile" ELSE "Directory"

\* The while loop of readdir: the list built so far is acc. The result is
\* the whole list, or the failure of a name resolution.
RECURSIVE readdir_walk(_, _, _, _, _)
readdir_walk(index, end_index, acc, cur, io) ==
    IF ~(index < end_index)
    THEN [err |-> "none", list |-> acc, cursor |-> cur, io |-> io]
    ELSE LET name == get_filename(index)
             io2 == Append(io, [op |-> "get_filename", arg |-> index])
             inode == to_inode(index)
         IN  IF name.err # "none"
             THEN [err |-> name.err, list |-> acc, cursor |-> name.cursor, io |-> io2]
             ELSE readdir_walk(advance(to_index(inode)), end_index,
                      Append(acc, DirEnt(inode, FileType(entries[index]), name.name)),
                      name.cursor, io2)

\* The logical list readdir builds for a directory inode.
readdir_list(ino, cur) ==
    LET entry == get_entry(ino) IN
    readdir_walk((to_index(ino) + 1) % U32, entry.end_index,
                 << DirEnt(ino, "Directory", "."),
                    DirEnt(to_inode(entry.parent_index), "Directory", "..") >>,
                 cur, <<>>)

\* An emission that attaches to each entry its own position i, not i + 1.
Mut_emit(list, offset, cap) ==
    LET n == IF Len(list) - offset < cap THEN Len(list) - offset ELSE cap IN
    IF n <= 0 THEN <<>>
    ELSE [k \in 1..n |->
            [ino |-> list[offset + k].ino, offset |-> offset + k - 1,
             kind |-> list[offset + k].kind, name |-> list[offset + k].name]]

\* The emission loop (fuse.rs 248-255): the entries of list from position
\* offset on are handed to the reply buffer, each with the offset i + 1 of
\* its successor, until the buffer, which holds cap entries, says it is full.
emit(list, offset, cap) ==
    LET n == IF Len(list) - offset < cap THEN Len(list) - offset ELSE cap IN
    IF n <= 0 THEN <<>>
    ELSE [k \in 1..n |->
            [ino |-> list[offset + k].ino, offset |-> offset + k,
             kind |-> list[offset + k].kind, name |-> list[offset + k].name]]

readdir(ino, offset, cap, cur) ==
    IF get_entry(ino).kind = "File"
    THEN Outcome(<<ReplyError("ENOTDIR")>>, <<>>, cur, <<>>, FALSE)
    ELSE LET w == readdir_list(ino, cur) IN
         IF w.err # "none"
         THEN Outcome(name_error_replies(w.err), w.io, w.cursor, <<>>, FALSE)
         ELSE Outcome(<<ReplyOk>>, w.io, w.cursor, emit(w.list, offset, cap), FALSE)

(* --------------------------- fuse.rs: read ------------------------------ *)
\* io.read_exact of n bytes with the byte source at pos.
read_bytes(pos, n) == [k \in 1..n |-> ByteAt(pos + k - 1)]

\* A seek relative to the current position (SeekFrom::Current).
Mut_seek(cur, pos) == cur + pos

\* io.seek(SeekFrom::Start(pos)) with the byte source at cur: its new
\* position.
seek(cur, pos) == pos

\* seek to pos, read_exact of n bytes, reply.data: both results are
\* unwrapped, so a read past the end of the byte source panics.
seek_read_reply(cur, pos, n) ==
    LET io == << [op |-> "seek", arg |-> pos], [op |-> "read_exact", arg |-> n] >>
        at == seek(cur, pos)
    IN  IF at + n > SrcLen(Count)
        THEN Outcome(<<>>, io, SrcLen(Count), <<>>, TRUE)
        ELSE Outcome(<<ReplyData(read_bytes(at, n))>>, io, at + n, <<>>, FALSE)

\* The outcomes of read: entry.size - offset, in u32, overflows when the
\* truncated offset exceeds the size; a build with overflow checks panics
\* there and a build without them wraps.
read(ino, offset, size, cur) ==
    LET entry == get_entry(ino) IN
    IF entry.kind = "Directory"
    THEN {Outcome(<<ReplyError("ENOTDIR")>>, <<>>, cur, <<>>, FALSE)}
    ELSE LET off32 == offset % U32
             left == (entry.size - off32) % U32
             read_size == IF size < left THEN size ELSE left
             pos == (entry.offset + off32) % U64
         IN  IF off32 > entry.size
             THEN {Outcome(<<>>, <<>>, cur, <<>>, TRUE), seek_read_reply(cur, pos, read_size)}
             ELSE {seek_read_reply(cur, pos, read_size)}

(* ------------------------- main.rs: the handlers ------------------------ *)
\* main.rs get_attr: as in fuse.rs, with the inode computed in u32 and
\* uid = gid = 1.
Main_get_attr(index) ==
    LET entry == entries[index] IN
    IF entry.kind = "File"
    THEN [ino |-> (index + 1) % U32, size |-> entry.size,
          blocks |-> (entry.size \div BlkSize) + 1, kind |-> "RegularFile",
          perm |-> 292, nlink |-> 1, uid |-> 1, gid |-> 1]
    ELSE [ino |-> (index + 1) % U32, size |-> 0, blocks |-> 0, kind |-> "Directory",
          perm |-> 365, nlink |-> (2 + subdirs(entry)) % U32, uid |-> 1, gid |-> 1]

\* main.rs get_entry: entries[(inode - 1) as usize].
Main_get_entry(inode) == entries[(inode - 1) % U64]

Main_advance(index) ==
    IF Main_get_entry((index + 1) % U32).kind = "File" THEN (index + 1) % U32
    ELSE Main_get_entry((index + 1) % U32).end_index

\* The while loop of main.rs lookup: it falls off its end without a reply.
RECURSIVE Main_lookup_walk(_, _, _, _, _)
Main_lookup_walk(index, end_index, name, cur, io) ==
    IF ~(index < end_index)
    THEN Outcome(<<>>, io, cur, <<>>, FALSE)
    ELSE LET entry_name == get_filename(index)
             io2 == Append(io, [op |-> "get_filename", arg |-> index])
         IN  IF entry_name.err # "none"
             THEN Outcome(name_error_replies(entry_name.err), io2,
                          entry_name.cursor, <<>>, FALSE)
             ELSE IF entry_name.name = name
             THEN Outcome(<<ReplyEntry(Main_get_attr(index))>>, io2,
                          entry_name.cursor, <<>>, FALSE)
             ELSE Main_lookup_walk(Main_advance(index), end_index, name,
                                   entry_name.cursor, io2)

Main_lookup(parent, name, cur) ==
    LET parent_entry == Main_get_entry(parent) IN
    IF parent_entry.kind # "Directory"
    THEN Outcome(<<ReplyError("EIO")>>, <<>>, cur, <<>>, FALSE)
    ELSE Main_lookup_walk((parent_entry.index + 1) % U32, parent_entry.end_index,
                          name, cur, <<>>)

Main_getattr(ino, cur) ==
    Outcome(<<ReplyAttr(Main_get_attr(((ino - 1) % U64) % U32))>>, <<>>, cur, <<>>, FALSE)

RECURSIVE Main_readdir_walk(_, _, _, _, _)
Main_readdir_walk(index, end_index, acc, cur, io) ==
    IF ~(index < end_index)
    THEN [err |-> "none", list |-> acc, cursor |-> cur, io |-> io]
    ELSE LET name == get_filename(index)
             io2 == Append(io, [op |-> "get_filename", arg |-> index])
             inode == (index + 1) % U32
         IN  IF name.err # "none"
             THEN [err |-> name.err, list |-> acc, cursor |-> name.cursor, io |-> io2]
             ELSE Main_readdir_walk(Main_advance(index), end_index,
                      Append(acc, DirEnt(inode, FileType(entries[index]), name.name)),
                      name.cursor, io2)

\* main.rs readdir: both synthetic entries carry the directory's own inode.
Main_readdir_list(ino, cur) ==
    Main_readdir_walk(ino % U32, Main_get_entry(ino).end_index,
                      << DirEnt(ino, "Directory", "."), DirEnt(ino, "Directory", "..") >>,
                      cur, <<>>)

Main_readdir(ino, offset, cap, cur) ==
    IF Main_get_entry(ino).kind = "File"
    THEN Outcome(<<ReplyError("ENOTDIR")>>, <<>>, cur, <<>>, FALSE)
    ELSE LET w == Main_readdir_list(ino, cur) IN
         IF w.err # "none"
         THEN Outcome(name_error_replies(w.err), w.io, w.cursor, <<>>, FALSE)
         ELSE Outcome(<<ReplyOk>>, w.io, w.cursor, emit(w.list, offset, cap), FALSE)

\* main.rs read: the request's offset is not used; min(_size, entry.size)
\* bytes are read from entry.offset.
Main_read(ino, offset, size, cur) ==
    LET entry == Main_get_entry(ino) IN
    IF entry.kind = "Directory"
    THEN {Outcome(<<ReplyError("ENOTDIR")>>, <<>>, cur, <<>>, FALSE)}
    ELSE {seek_read_reply(cur, entry.offset, IF size < entry.size THEN size ELSE entry.size)}

(* ------------------------------ requests -------------------------------- *)
\* The requests the transport delivers. A read's offset is any of the
\* offsets up to one past the largest file, or one that does not fit in u32.
ReadOffsets == (0..(MaxSize + 1)) \cup {U32 + 1}
ReadSizes == {0, 1, MaxSize + 1}
\* A reply buffer no listing fills.
Unlimited == MaxEntries + 2
Impls == {"fuse", "main"}

NoOutcome == Outcome(<<>>, <<>>, 0, <<>>, FALSE)

NoRequest ==
    [impl |-> "", op |-> "none", ino |-> 0, name |-> "", offset |-> 0, size |-> 0,
     cap |-> 0, moved |-> FALSE, out |-> NoOutcome]

Request(impl, op, ino, name, offset, size, cap, out) ==
    [impl |-> impl, op |-> op, ino |-> ino, name |-> name, offset |-> offset,
     size |-> size, cap |-> cap, moved |-> cursor # 0, out |-> out]

Idle == last.op = "none"

\* The listing a client has under way: the directory, the resume offset of
\* its next readdir call, and the entries the calls so far have emitted.
NoListing ==
    [impl |-> "", ino |-> 0, next |-> 0, acc |-> <<>>, calls |-> 0, done |-> FALSE]

\* One request runs to completion: the handler's outcome is recorded, with
\* whether the requests before it had moved the byte source from its start,
\* and the byte source is left where the handler left it.
Serve(req) ==
    /\ last' = req
    /\ cursor' = req.out.cursor
    /\ UNCHANGED <<entries, names, fault>>

Lookup ==
    /\ Idle
    /\ \E parent \in Inodes, name \in QueryNames :
          Serve(Request("fuse", "lookup", parent, name, 0, 0, 0,
                        lookup(parent, name, cursor)))
    /\ UNCHANGED pg

Getattr ==
    /\ Idle
    /\ \E ino \in Inodes :
          Serve(Request("fuse", "getattr", ino, "", 0, 0, 0, getattr(ino, cursor)))
    /\ UNCHANGED pg

\* One unpaginated readdir pass.
Readdir ==
    /\ Idle
    /\ \E ino \in Inodes :
          Serve(Request("fuse", "readdir", ino, "", 0, 0, Unlimited,
                        readdir(ino, 0, Unlimited, cursor)))
    /\ UNCHANGED pg

Read ==
    /\ Idle
    /\ \E ino \in Inodes, offset \in ReadOffsets, size \in ReadSizes :
          \E out \in read(ino, offset, size, cursor) :
              Serve(Request("fuse", "read", ino, "", offset, size, 0, out))
    /\ UNCHANGED pg

MainLookup ==
    /\ Idle
    /\ \E parent \in Inodes, name \in QueryNames :
          Serve(Request("main", "lookup", parent, name, 0, 0, 0,
                        Main_lookup(parent, name, cursor)))
    /\ UNCHANGED pg

MainGetattr ==
    /\ Idle
    /\ \E ino \in Inodes :
          Serve(Request("main", "getattr", ino, "", 0, 0, 0, Main_getattr(ino, cursor)))
    /\ UNCHANGED pg

MainReaddir ==
    /\ Idle
    /\ \E ino \in Inodes :
          Serve(Request("main", "readdir", ino, "", 0, 0, Unlimited,
                        Main_readdir(ino, 0, Unlimited, cursor)))
    /\ UNCHANGED pg

MainRead ==
    /\ Idle
    /\ \E ino \in Inodes, offset \in ReadOffsets, size \in ReadSizes :
          \E out \in Main_read(ino, offset, size, cursor) :
              Serve(Request("main", "read", ino, "", offset, size, 0, out))
    /\ UNCHANGED pg

\* The two conversions applied to a valid index of a table of fewer than
\* 2^32 entries: fuse.rs's From impls and main.rs's index + 1 in u32 and
\* (inode - 1) as usize. They use neither the table nor the byte source, and
\* are applied before any request is served.
Convert ==
    /\ Idle /\ cursor = 0
    /\ \E i \in 0..(U32 - 2) :
          \/ Serve(Request("fuse", "convert", to_inode(i), "", i,
                           to_index(to_inode(i)), 0, [NoOutcome EXCEPT !.cursor = cursor]))
          \/ Serve(Request("main", "convert", (i + 1) % U32, "", i,
                           (((i + 1) % U32) - 1) % U64, 0,
                           [NoOutcome EXCEPT !.cursor = cursor]))
    /\ UNCHANGED pg

\* A client starts listing a directory.
OpenDir ==
    /\ Idle
    /\ pg.ino = 0 \/ pg.done
    /\ \E impl \in Impls, ino \in Inodes :
          /\ get_entry(ino).kind = "Directory"
          /\ pg' = [impl |-> impl, ino |-> ino, next |-> 0, acc |-> <<>>,
                    calls |-> 0, done |-> FALSE]
    /\ UNCHANGED <<entries, names, fault, cursor, last>>

\* The next readdir call of the listing: its resume offset is the offset
\* attached to the last entry emitted so far (0 at first), and the reply
\* buffer holds cap entries, at least one. The listing is done when a call
\* leaves room in its buffer.
Page ==
    /\ Idle
    /\ pg.ino # 0 /\ ~pg.done
    /\ \E cap \in 1..MaxCap :
          LET out == IF pg.impl = "fuse" THEN readdir(pg.ino, pg.next, cap, cursor)
                     ELSE Main_readdir(pg.ino, pg.next, cap, cursor)
              n == Len(out.emitted)
          IN  /\ Serve(Request(pg.impl, "readdir", pg.ino, "", pg.next, 0, cap, out))
              /\ pg' = [pg EXCEPT !.next = IF n = 0 THEN @ ELSE out.emitted[n].offset,
                                  !.acc = @ \o out.emitted,
                                  !.calls = @ + 1,
                                  !.done = n < cap]

\* The transport takes the reply; the adapter waits for the next request.
Deliver ==
    /\ ~Idle
    /\ last' = NoRequest
    /\ UNCHANGED <<entries, names, fault, cursor, pg>>

TableNames(t) ==
    {f \in [DOMAIN t -> Names \cup {""}] :
        f[0] = "" /\ \A i \in DOMAIN t \ {0} : f[i] # ""}

\* The failures of the name resolution: of one entry, in one of three ways.
Faults(t) ==
    {NoFault} \cup
    [k : {"io_os", "io_nocode", "other"}, index : DOMAIN t \ {0}]

Init ==
    /\ entries \in Tables
    /\ names \in TableNames(entries)
    /\ fault = NoFault
    /\ cursor = 0
    /\ last = NoRequest
    /\ pg = NoListing

\* As Init, over the tables of fewer than MaxEntries entries, with a byte
\* source on which a name resolution may fail.
InitFault ==
    /\ entries \in UNION {TablesOfLen(n) : n \in 2..(MaxEntries - 1)}
    /\ names \in TableNames(entries)
    /\ fault \in Faults(entries)
    /\ cursor = 0
    /\ last = NoRequest
    /\ pg = NoListing

Next ==
    \/ Lookup
    \/ Getattr
    \/ Readdir
    \/ Read
    \/ MainLookup
    \/ MainGetattr
    \/ MainReaddir
    \/ MainRead
    \/ Convert
    \/ Deliver

NextList ==
    \/ OpenDir
    \/ Page
    \/ Deliver

Spec == Init /\ [][Next]_vars

\* The handlers over a byte source whose name resolution may fail.
SpecFault == InitFault /\ [][Next]_vars

\* Paginated listings.
SpecList == Init /\ [][NextList]_vars

(* ------------------------------- claims --------------------------------- *)
Replies == last.out.replies
Served(op) == last.op = op

\* The index of the entry a getattr or a lookup is about: the entry of the
\* inode, or the first direct child of the parent that bears the name.
Hits == {c \in ChildrenOf(last.ino - 1) : names[c] = last.name}
Target == IF Served("getattr") THEN last.ino - 1 ELSE Least(Hits)

\* A getattr, or a lookup that replied with an entry.
AttrReplied ==
    \/ Served("getattr")
    \/ Served("lookup") /\ Len(Replies) = 1 /\ Replies[1].t = "entry"

\* The directories strictly between a directory's self_index and end_index.
DirsWithin(d) ==
    {j \in DOMAIN entries : entries[d].index < j /\ j < entries[d].end_index /\ IsDir(j)}

\* C7: the attributes sent for a directory (by getattr, and by a successful
\* lookup) carry the link count 2 + the number of directory entries strictly
\* between its self_index and its end_index; those sent for a file carry 1.
C7_LinkCount ==
    AttrReplied =>
        /\ Len(Replies) = 1
        /\ Replies[1].attr.nlink =
              IF IsDir(Target) THEN 2 + Cardinality(DirsWithin(Target)) ELSE 1

\* A getattr of a directory that holds a directory that is not its direct
\* child.
C7_Witness ==
    /\ Served("getattr") /\ IsDir(Target)
    /\ \E j \in DirsWithin(Target) : ~DirectChild(Target, j)
    /\ Replies[1].attr.nlink = 4

\* The children entries of the listing a readdir emitted from offset 0.
ListedChildren == SubSeq(last.out.emitted, 3, Len(last.out.emitted))

\* C8: to_inode(i) = i + 1 without wrapping, to_index(to_inode(i)) = i and
\* to_inode(i) # 0 for every valid index i; the ino of every attribute reply
\* and of every child entry of a listing is the index of the entry it denotes
\* plus one.
C8_InodeIsIndexPlusOne ==
    /\ Served("convert") =>
          /\ last.ino = last.offset + 1
          /\ last.size = last.offset
          /\ last.ino # 0
    /\ AttrReplied => Replies[1].attr.ino = Target + 1
    /\ (Served("readdir") /\ Replies = <<ReplyOk>> /\ last.offset = 0
        /\ last.cap = Unlimited) =>
          /\ Len(ListedChildren) = Cardinality(ChildrenOf(last.ino - 1))
          /\ \A k \in 1..Len(ListedChildren) :
                ListedChildren[k].ino = Ascending(ChildrenOf(last.ino - 1))[k] + 1

\* The conversion of the largest valid index.
C8_Witness == Served("convert") /\ last.impl = "fuse" /\ last.offset = U32 - 2

\* The attributes an implementation computes for an index.
AttrOf(impl, index) == IF impl = "fuse" THEN get_attr(index) ELSE Main_get_attr(index)

\* C1: a lookup in a directory replies with the attributes of the direct
\* child that bears the name, and with the not-found error when no direct
\* child bears it (names of entries nested deeper included).
C1_Lookup ==
    (Served("lookup") /\ IsDir(last.ino - 1)) =>
        IF Hits # {}
        THEN \E c \in Hits : Replies = <<ReplyEntry(AttrOf(last.impl, c))>>
        ELSE Replies = <<ReplyError("ENOENT")>>

\* C1 in fuse.rs alone, where it holds.
C1_LookupInFuse == last.impl = "fuse" => C1_Lookup

\* A fuse.rs lookup of a name that only an entry nested in a subdirectory
\* bears.
C1_NestedNameSeen ==
    /\ Served("lookup") /\ last.impl = "fuse" /\ Hits = {}
    /\ \E i \in DOMAIN entries : Under(last.ino - 1, i) /\ names[i] = last.name

\* The list C2 describes for the directory d.
ExpectedList(d) ==
    << DirEnt(d + 1, "Directory", "."),
       DirEnt(ParentDir(d) + 1, "Directory", "..") >>
    \o [k \in 1..Cardinality(ChildrenOf(d)) |->
          LET c == Ascending(ChildrenOf(d))[k] IN
          DirEnt(c + 1, FileType(entries[c]), names[c])]

\* The entries a readdir emitted, without the resume offsets.
Emitted ==
    [k \in 1..Len(last.out.emitted) |->
        DirEnt(last.out.emitted[k].ino, last.out.emitted[k].kind,
               last.out.emitted[k].name)]

\* C2: the list readdir builds for a directory is ".", then ".." with the
\* parent's inode (its own for the root), then the direct children, each
\* once, in increasing index order, with inode = index + 1 and their kind.
C2_ReaddirList ==
    (Served("readdir") /\ IsDir(last.ino - 1) /\ last.offset = 0
     /\ last.cap = Unlimited) =>
        /\ Replies = <<ReplyOk>>
        /\ Emitted = ExpectedList(last.ino - 1)

\* C2 in fuse.rs alone, where it holds.
C2_ReaddirListInFuse == last.impl = "fuse" => C2_ReaddirList

\* A fuse.rs listing of a subdirectory.
C2_SubdirListed ==
    /\ Served("readdir") /\ last.impl = "fuse" /\ last.ino # 1
    /\ IsDir(last.ino - 1) /\ Len(last.out.emitted) > 2

\* The unpaginated pass over the directory of the listing under way.
FullListing ==
    IF pg.impl = "fuse" THEN readdir(pg.ino, 0, Unlimited, 0).emitted
    ELSE Main_readdir(pg.ino, 0, Unlimited, 0).emitted

\* C3: the entries that the readdir calls of a listing emit, each call
\* resuming at the offset attached to the last entry emitted, are together
\* the entries of one unpaginated pass, in order, wherever the buffer fills;
\* and every call on a directory ends with the done acknowledgment.
C3_Pagination ==
    /\ pg.ino # 0 =>
          /\ pg.next <= Len(FullListing)
          /\ pg.acc = SubSeq(FullListing, 1, pg.next)
          /\ pg.done => pg.acc = FullListing
    /\ (Served("readdir") /\ IsDir(last.ino - 1)) => Replies = <<ReplyOk>>

\* A listing that took three calls or more, the last of which emitted
\* nothing and was acknowledged.
C3_Witness ==
    /\ pg.done /\ pg.calls >= 3 /\ Len(pg.acc) >= 4
    /\ Served("readdir") /\ last.out.emitted = <<>> /\ Replies = <<ReplyOk>>

Min(a, b) == IF a < b THEN a ELSE b

\* C4: a read of a file at an offset within it seeks the byte source to
\* file.offset + offset and replies with min(length, file.size - offset)
\* bytes, the bytes of the byte source from that position.
C4_ReadWithin ==
    (Served("read") /\ IsFile(last.ino - 1)
     /\ last.offset <= entries[last.ino - 1].size) =>
        LET file == entries[last.ino - 1]
            n == Min(last.size, file.size - last.offset)
        IN  /\ last.out.io = << [op |-> "seek", arg |-> file.offset + last.offset],
                                [op |-> "read_exact", arg |-> n] >>
            /\ Replies = <<ReplyData([k \in 1..n |->
                                ByteAt(file.offset + last.offset + k - 1)])>>

\* C4 in fuse.rs alone, where it holds.
C4_ReadWithinInFuse == last.impl = "fuse" => C4_ReadWithin

\* A fuse.rs read at a positive offset that the file's end cuts short.
C4_ReadCutShort ==
    /\ Served("read") /\ last.impl = "fuse" /\ IsFile(last.ino - 1)
    /\ 0 < last.offset /\ last.offset < entries[last.ino - 1].size
    /\ last.size > entries[last.ino - 1].size - last.offset

\* C5: a read at an offset beyond the file's size is clamped or rejected:
\* nothing panics or wraps, the offset is not truncated, and no read of more
\* than the file's remaining bytes (none) is made.
C5_ReadBeyond ==
    (Served("read") /\ IsFile(last.ino - 1)
     /\ last.offset > entries[last.ino - 1].size) =>
        /\ ~last.out.panicked
        /\ Len(Replies) = 1
        /\ Replies[1].t = "error" \/ Replies[1] = ReplyData(<<>>)
        /\ \A k \in 1..Len(last.out.io) :
              last.out.io[k].op = "read_exact" => last.out.io[k].arg = 0

\* The name resolution failed in the request served.
FaultHit ==
    /\ fault.k # "none"
    /\ \E k \in 1..Len(last.out.io) :
          last.out.io[k] = [op |-> "get_filename", arg |-> fault.index]

\* C6: every lookup, getattr, readdir and read gets exactly one reply; a
\* failed name resolution gets the raw OS code of its Io error, and EIO when
\* the Io error has none.
C6_ExactlyOneReply ==
    last.op \in {"lookup", "getattr", "readdir", "read"} =>
        /\ Len(Replies) = 1
        /\ (FaultHit /\ fault.k = "io_nocode") => Replies = <<ReplyError("EIO")>>
        /\ (FaultHit /\ fault.k = "io_os") => Replies = <<ReplyError(RawOsError)>>

\* C6 for the name resolutions that fail with an Io error without an OS
\* code, in fuse.rs.
C6_NoCodeRepliesEio ==
    (last.impl = "fuse" /\ FaultHit /\ fault.k = "io_nocode") =>
        Replies = <<ReplyError("EIO")>>

\* C9: an operation on an inode of the wrong kind replies with its error and
\* uses the byte source not at all: lookup in a file EIO, readdir of a file
\* ENOTDIR, read of a directory EISDIR.
C9_WrongKind ==
    /\ (Served("lookup") /\ IsFile(last.ino - 1)) =>
          Replies = <<ReplyError("EIO")>> /\ last.out.io = <<>>
    /\ (Served("readdir") /\ IsFile(last.ino - 1)) =>
          Replies = <<ReplyError("ENOTDIR")>> /\ last.out.io = <<>>
    /\ (Served("read") /\ IsDir(last.ino - 1)) =>
          Replies = <<ReplyError("EISDIR")>> /\ last.out.io = <<>>

\* The outcomes of the handler of the request served, had the byte source
\* been at c when the request came.
Rerun(c) ==
    LET fuse == last.impl = "fuse" IN
    CASE Served("lookup") ->
            {IF fuse THEN lookup(last.ino, last.name, c)
             ELSE Main_lookup(last.ino, last.name, c)}
      [] Served("getattr") ->
            {IF fuse THEN getattr(last.ino, c) ELSE Main_getattr(last.ino, c)}
      [] Served("readdir") ->
            {IF fuse THEN readdir(last.ino, last.offset, last.cap, c)
             ELSE Main_readdir(last.ino, last.offset, last.cap, c)}
      [] Served("read") ->
            IF fuse THEN read(last.ino, last.offset, last.size, c)
            ELSE Main_read(last.ino, last.offset, last.size, c)
      [] OTHER -> {}

\* C10: the reply to a request does not depend on what was served before
\* it: wherever the earlier requests left the byte source, the handler sends
\* the replies and the directory entries it sends when the request is the
\* first one (the byte source at 0), so any two histories get the same.
C10_HistoryIndependent ==
    last.op \in {"lookup", "getattr", "readdir", "read"} =>
        \E o \in Rerun(0) :
            /\ o.replies = Replies
            /\ o.emitted = last.out.emitted
            /\ o.panicked = last.out.panicked

\* A read that replied with bytes after earlier requests had moved the byte
\* source from its start.
C10_Witness ==
    /\ Served("read") /\ Len(Replies) = 1 /\ Replies[1].t = "data"
    /\ Replies[1].data # <<>>
    /\ last.moved
====
